---- MODULE Spec2Model ----
(***************************************************************************)
(* The LTA calendar parser (src/server/parser.ts): the text of a calendar  *)
(* is cut into entries at tournament-code anchors, the Sussex entries are  *)
(* kept, and one Tournament record is built per kept entry.                *)
(*                                                                         *)
(* A string is a sequence of characters; a character is a one-letter       *)
(* string, and the en dash and the em dash are the characters "ndash" and  *)
(* "mdash".  Offsets are 0-based as in the source (match.index), sequence  *)
(* positions are 1-based.                                                  *)
(***************************************************************************)
EXTENDS Integers, Sequences, FiniteSets, TLC

VARIABLES pending, text, normalizedText, codeMatches, currentCategory, i,
          tournaments, offsets, pc, results, rows, inserted, reports

\* the table of the database, the records handed to its insert statement so
\* far, and the report of each insertTournaments call
dbVars == <<rows, inserted, reports>>

vars == <<pending, text, normalizedText, codeMatches, currentCategory, i,
          tournaments, offsets, pc, results, rows, inserted, reports>>

----------------------------------------------------------------------------
(* Characters and character classes of the regular expressions.            *)

UpperSeq == <<"A", "B", "C", "D", "E", "F", "G", "H", "I", "J", "K", "L", "M", "N", "O", "P", "Q", "R", "S", "T", "U", "V", "W", "X", "Y", "Z">>
LowerSeq == <<"a", "b", "c", "d", "e", "f", "g", "h", "i", "j", "k", "l", "m", "n", "o", "p", "q", "r", "s", "t", "u", "v", "w", "x", "y", "z">>
DigitSeq == <<"0", "1", "2", "3", "4", "5", "6", "7", "8", "9">>

Range(s) == {s[k] : k \in 1..Len(s)}

Upper == Range(UpperSeq)
Lower == Range(LowerSeq)
Digit == Range(DigitSeq)
\* \s
WS == {" ", "\t", "\n", "\r"}
\* \w
WordChars == Upper \cup Lower \cup Digit \cup {"_"}
\* [-ndash mdash]
Dashes == {"-", "ndash", "mdash"}

ToUpperChar(c) ==
  IF c \in Lower THEN UpperSeq[CHOOSE k \in 1..26 : LowerSeq[k] = c] ELSE c

ToLowerChar(c) ==
  IF c \in Upper THEN LowerSeq[CHOOSE k \in 1..26 : UpperSeq[k] = c] ELSE c

\* String.prototype.toUpperCase
ToUpperCase(s) == [k \in 1..Len(s) |-> ToUpperChar(s[k])]

\* String.prototype.startsWith
StartsWith(s, prefix) ==
  Len(s) >= Len(prefix) /\ SubSeq(s, 1, Len(prefix)) = prefix

Min(S) == CHOOSE x \in S : \A y \in S : x <= y

Max(S) == CHOOSE x \in S : \A y \in S : x >= y

----------------------------------------------------------------------------
(* Regular expressions.  A pattern is a sequence of items; an item is a    *)
(* word boundary (\b) or a character class with a repetition range lo..hi, *)
(* hi = -1 for no upper limit.  Quantifiers are greedy and backtrack, as   *)
(* in JavaScript.  An alternation is a sequence of patterns tried in order.*)
(* The item End is the assertion $.                                        *)

WB == [kind |-> "wb", cs |-> {}, lo |-> 0, hi |-> 0]
One(S) == [kind |-> "cls", cs |-> S, lo |-> 1, hi |-> 1]
Opt(S) == [kind |-> "cls", cs |-> S, lo |-> 0, hi |-> 1]
Star(S) == [kind |-> "cls", cs |-> S, lo |-> 0, hi |-> -1]
Plus(S) == [kind |-> "cls", cs |-> S, lo |-> 1, hi |-> -1]
Rep(S, lo, hi) == [kind |-> "cls", cs |-> S, lo |-> lo, hi |-> hi]
End == [kind |-> "end", cs |-> {}, lo |-> 0, hi |-> 0]

\* a literal string, case-sensitive
Lit(s) == [k \in 1..Len(s) |-> One({s[k]})]
\* a literal string under the i flag
LitI(s) == [k \in 1..Len(s) |-> One({ToUpperChar(s[k]), ToLowerChar(s[k])})]

IsWordChar(s, p) == p >= 1 /\ p <= Len(s) /\ s[p] \in WordChars

\* \b holds between positions p-1 and p
AtWordBoundary(s, p) == IsWordChar(s, p - 1) # IsWordChar(s, p)

\* the number of consecutive characters of class cs from position p, at most hi
RECURSIVE Run(_, _, _, _)
Run(cs, s, p, hi) ==
  IF hi = 0 \/ p > Len(s) THEN 0
  ELSE IF s[p] \notin cs THEN 0
  ELSE 1 + Run(cs, s, p + 1, hi - 1)

\* MatchFrom(re, k, s, p): the items k.. of re matched at position p of s;
\* the position after the match, 0 when there is none.
RECURSIVE MatchFrom(_, _, _, _), TryCounts(_, _, _, _, _)
MatchFrom(re, k, s, p) ==
  IF k > Len(re) THEN p
  ELSE IF re[k].kind = "wb"
       THEN IF AtWordBoundary(s, p) THEN MatchFrom(re, k + 1, s, p) ELSE 0
       ELSE IF re[k].kind = "end"
       THEN IF p = Len(s) + 1 THEN MatchFrom(re, k + 1, s, p) ELSE 0
       ELSE IF re[k].hi = 1
            THEN IF p <= Len(s) /\ s[p] \in re[k].cs
                 THEN LET r == MatchFrom(re, k + 1, s, p + 1)
                      IN IF r # 0 \/ re[k].lo = 1 THEN r
                         ELSE MatchFrom(re, k + 1, s, p)
                 ELSE IF re[k].lo = 1 THEN 0 ELSE MatchFrom(re, k + 1, s, p)
            ELSE TryCounts(re, k, s, p, Run(re[k].cs, s, p, re[k].hi))

TryCounts(re, k, s, p, n) ==
  IF n < re[k].lo THEN 0
  ELSE LET r == MatchFrom(re, k + 1, s, p + n)
       IN IF r # 0 THEN r ELSE TryCounts(re, k, s, p, n - 1)

\* an alternation matched at position p: the first alternative that matches
RECURSIVE AltFrom(_, _, _, _)
AltFrom(alts, a, s, p) ==
  IF a > Len(alts) THEN 0
  ELSE LET r == MatchFrom(alts[a], 1, s, p)
       IN IF r # 0 THEN r ELSE AltFrom(alts, a + 1, s, p)

\* RegExp.prototype.test
Test(alts, s) == \E p \in 1..(Len(s) + 1) : AltFrom(alts, 1, s, p) # 0

NoMatch == [found |-> FALSE, index |-> -1, m |-> <<>>]

\* String.prototype.match without the g flag: the leftmost match
Match(alts, s) ==
  LET at == {p \in 1..(Len(s) + 1) : AltFrom(alts, 1, s, p) # 0}
  IN IF at = {} THEN NoMatch
     ELSE LET p == Min(at)
          IN [found |-> TRUE, index |-> p - 1,
              m |-> SubSeq(s, p, AltFrom(alts, 1, s, p) - 1)]

\* String.prototype.matchAll with the g flag: the non-overlapping matches,
\* left to right, each with its offset and its text
RECURSIVE MatchAllFrom(_, _, _)
MatchAllFrom(re, s, from) ==
  LET at == {p \in from..Len(s) : MatchFrom(re, 1, s, p) # 0}
  IN IF at = {} THEN <<>>
     ELSE LET p == Min(at)
              e == MatchFrom(re, 1, s, p)
          IN <<[index |-> p - 1, raw |-> SubSeq(s, p, e - 1)]>>
               \o MatchAllFrom(re, s, IF e > p THEN e ELSE p + 1)

MatchAll(re, s) == MatchAllFrom(re, s, 1)

\* String.prototype.replace(/\s+/g, by)
RECURSIVE ReplaceWsFrom(_, _, _)
ReplaceWsFrom(s, p, by) ==
  IF p > Len(s) THEN <<>>
  ELSE IF s[p] \in WS
       THEN by \o ReplaceWsFrom(s, p + Run(WS, s, p, -1), by)
       ELSE <<s[p]>> \o ReplaceWsFrom(s, p + 1, by)

ReplaceWs(s, by) == ReplaceWsFrom(s, 1, by)

\* String.prototype.substring(from, to) with 0-based offsets
Substring(s, from, to) == SubSeq(s, from + 1, to)

\* String.prototype.indexOf: the offset of the first occurrence, -1 if none
IndexOf(s, sub) ==
  LET at == {p \in 0..(Len(s) - Len(sub)) : SubSeq(s, p + 1, p + Len(sub)) = sub}
  IN IF at = {} THEN -1 ELSE Min(at)

\* String.prototype.includes
Includes(s, sub) == IndexOf(s, sub) > -1

\* String.prototype.trim
Trim(s) ==
  LET keep == {p \in 1..Len(s) : s[p] \notin WS}
  IN IF keep = {} THEN <<>> ELSE SubSeq(s, Min(keep), Max(keep))

\* s.replace(/^[cs]+/, '')
StripLeading(cs, s) ==
  LET keep == {p \in 1..Len(s) : s[p] \notin cs}
  IN IF keep = {} THEN <<>> ELSE SubSeq(s, Min(keep), Len(s))

\* s.replace(/[cs]+$/, '')
StripTrailing(cs, s) ==
  LET keep == {p \in 1..Len(s) : s[p] \notin cs}
  IN IF keep = {} THEN <<>> ELSE SubSeq(s, 1, Max(keep))

\* s.split(' ') and its last part
LastPart(s) ==
  LET sp == {p \in 1..Len(s) : s[p] = " "}
  IN IF sp = {} THEN s ELSE SubSeq(s, Max(sp) + 1, Len(s))

----------------------------------------------------------------------------
(* parseTournamentsProgrammatically: its patterns.                         *)

\* text.replace(/[ndash mdash]/g, '-')
NormalizeDashes(s) ==
  [k \in 1..Len(s) |-> IF s[k] \in {"ndash", "mdash"} THEN "-" ELSE s[k]]

\* /([A-Z]\s*[A-Z]\s*[A-Z]\s*[-]\s*\d\s*\d\s*[-]\s*\d\s*\d\s*\d\s*\d)/g
entryStartRegex ==
  << One(Upper), Star(WS), One(Upper), Star(WS), One(Upper), Star(WS),
     One({"-"}), Star(WS), One(Digit), Star(WS), One(Digit), Star(WS),
     One({"-"}), Star(WS), One(Digit), Star(WS), One(Digit), Star(WS),
     One(Digit), Star(WS), One(Digit) >>

\* /N\s*&\s*U\s*EVENTS/i
AgeHeading(n) ==
  LitI(n) \o <<Star(WS)>> \o LitI(<<"&">>) \o <<Star(WS)>> \o LitI(<<"U">>)
    \o <<Star(WS)>> \o LitI(<<"E", "V", "E", "N", "T", "S">>)

\* /N\s*&\s*U\s*EVENTS?\s*[-ndash mdash]\s*G/i
AgeGenderHeading(n, g) ==
  LitI(n) \o <<Star(WS)>> \o LitI(<<"&">>) \o <<Star(WS)>> \o LitI(<<"U">>)
    \o <<Star(WS)>> \o LitI(<<"E", "V", "E", "N", "T">>) \o <<Opt({"S", "s"})>>
    \o <<Star(WS), One(Dashes), Star(WS)>> \o LitI(g)

\* /OPEN\s*EVENTS?\s*[-ndash mdash]\s*G/i
OpenHeading(g) ==
  LitI(<<"O", "P", "E", "N">>) \o <<Star(WS)>> \o LitI(<<"E", "V", "E", "N", "T">>) \o <<Opt({"S", "s"})>>
    \o <<Star(WS), One(Dashes), Star(WS)>> \o LitI(g)

Junior == <<"J", "u", "n", "i", "o", "r">>

categoryPatterns ==
  << [label |-> <<"8", "U">>, regex |-> AgeHeading(<<"8">>)],
     [label |-> <<"9", "U">>, regex |-> AgeHeading(<<"9">>)],
     [label |-> <<"1", "0", "U">>, regex |-> AgeHeading(<<"1", "0">>)],
     [label |-> <<"1", "1", "U", " ", "B", "o", "y", "s">>, regex |-> AgeGenderHeading(<<"1", "1">>, <<"B", "O", "Y", "S">>)],
     [label |-> <<"1", "1", "U", " ", "G", "i", "r", "l", "s">>, regex |-> AgeGenderHeading(<<"1", "1">>, <<"G", "I", "R", "L", "S">>)],
     [label |-> <<"1", "2", "U", " ", "B", "o", "y", "s">>, regex |-> AgeGenderHeading(<<"1", "2">>, <<"B", "O", "Y", "S">>)],
     [label |-> <<"1", "2", "U", " ", "G", "i", "r", "l", "s">>, regex |-> AgeGenderHeading(<<"1", "2">>, <<"G", "I", "R", "L", "S">>)],
     [label |-> <<"1", "4", "U", " ", "B", "o", "y", "s">>, regex |-> AgeGenderHeading(<<"1", "4">>, <<"B", "O", "Y", "S">>)],
     [label |-> <<"1", "4", "U", " ", "G", "i", "r", "l", "s">>, regex |-> AgeGenderHeading(<<"1", "4">>, <<"G", "I", "R", "L", "S">>)],
     [label |-> <<"1", "6", "U", " ", "B", "o", "y", "s">>, regex |-> AgeGenderHeading(<<"1", "6">>, <<"B", "O", "Y", "S">>)],
     [label |-> <<"1", "6", "U", " ", "G", "i", "r", "l", "s">>, regex |-> AgeGenderHeading(<<"1", "6">>, <<"G", "I", "R", "L", "S">>)],
     [label |-> <<"1", "8", "U", " ", "B", "o", "y", "s">>, regex |-> AgeGenderHeading(<<"1", "8">>, <<"B", "O", "Y", "S">>)],
     [label |-> <<"1", "8", "U", " ", "G", "i", "r", "l", "s">>, regex |-> AgeGenderHeading(<<"1", "8">>, <<"G", "I", "R", "L", "S">>)],
     [label |-> <<"O", "p", "e", "n", " ", "M", "e", "n">>, regex |-> OpenHeading(<<"M", "E", "N">>)],
     [label |-> <<"O", "p", "e", "n", " ", "W", "o", "m", "e", "n">>, regex |-> OpenHeading(<<"W", "O", "M", "E", "N">>)] >>

\* /\b(Mixed|Male|Female)\b/i
genderRegex ==
  << <<WB>> \o LitI(<<"M", "i", "x", "e", "d">>) \o <<WB>>,
     <<WB>> \o LitI(<<"M", "a", "l", "e">>) \o <<WB>>,
     <<WB>> \o LitI(<<"F", "e", "m", "a", "l", "e">>) \o <<WB>> >>

\* /\b(Singles|Doubles)\b/i
typeRegex ==
  << <<WB>> \o LitI(<<"S", "i", "n", "g", "l", "e", "s">>) \o <<WB>>,
     <<WB>> \o LitI(<<"D", "o", "u", "b", "l", "e", "s">>) \o <<WB>> >>

\* the width of the text before an anchor that is searched for headings
LookBehind == 1000

Letter == Upper \cup Lower

\* /(?:Singles|Doubles|Grade)\s*(\d)/i
gradeRegex ==
  << LitI(<<"S", "i", "n", "g", "l", "e", "s">>) \o <<Star(WS), One(Digit)>>,
     LitI(<<"D", "o", "u", "b", "l", "e", "s">>) \o <<Star(WS), One(Digit)>>,
     LitI(<<"G", "r", "a", "d", "e">>) \o <<Star(WS), One(Digit)>> >>

\* \s*\d{1,2}\s*\w{3}
DayAndMonth ==
  << Star(WS), Rep(Digit, 1, 2), Star(WS),
     One(WordChars), One(WordChars), One(WordChars) >>

\* /(?:Sat|Sun|Mon|Tue|Wed|Thu|Fri)\s*\d{1,2}\s*\w{3}/i
dateRegex ==
  << LitI(<<"S", "a", "t">>) \o DayAndMonth, LitI(<<"S", "u", "n">>) \o DayAndMonth,
     LitI(<<"M", "o", "n">>) \o DayAndMonth, LitI(<<"T", "u", "e">>) \o DayAndMonth,
     LitI(<<"W", "e", "d">>) \o DayAndMonth, LitI(<<"T", "h", "u">>) \o DayAndMonth,
     LitI(<<"F", "r", "i">>) \o DayAndMonth >>

\* /L\s*(\d{2}\/\d{2}\/\d{4}\s*\d{2}:\d{2})/i for the label L, "CD:" or "WD:"
deadlineRegex(label) ==
  << LitI(label)
     \o << Star(WS), One(Digit), One(Digit), One({"/"}), One(Digit), One(Digit),
           One({"/"}), One(Digit), One(Digit), One(Digit), One(Digit),
           Star(WS), One(Digit), One(Digit), One({":"}), One(Digit), One(Digit) >> >>

\* /([a-zA-Z0-9._%+-]+\s*@\s*[a-zA-Z0-9.-]+\s*\.\s*[a-zA-Z]{2,})/
emailRegex ==
  << << Plus(Letter \cup Digit \cup {".", "_", "%", "+", "-"}), Star(WS),
        One({"@"}), Star(WS), Plus(Letter \cup Digit \cup {".", "-"}),
        Star(WS), One({"."}), Star(WS), Rep(Letter, 2, -1) >> >>

\* [-ndash mdash\s]
DashOrWs == Dashes \cup WS
\* [-\/ndash mdash]
DateSep == Dashes \cup {"/"}

\* /\s*[-ndash mdash]\s*\d{1,2}\s*[-\/ndash mdash]\s*\d{1,2}\s*[-\/ndash mdash]\s*\d{2,4}\s*$/gi
trailingDateRegex ==
  << << Star(WS), One(Dashes), Star(WS), Rep(Digit, 1, 2), Star(WS),
        One(DateSep), Star(WS), Rep(Digit, 1, 2), Star(WS), One(DateSep),
        Star(WS), Rep(Digit, 2, 4), Star(WS), End >> >>

\* /[A-Z]{1,2}\s*[0-9]\s*[A-Z0-9]?\s*[0-9]\s*[A-Z]\s*[A-Z]/i
postcodeRegex ==
  << << Rep(Letter, 1, 2), Star(WS), One(Digit), Star(WS),
        Opt(Letter \cup Digit), Star(WS), One(Digit), Star(WS), One(Letter),
        Star(WS), One(Letter) >> >>

\* venue.substring(0, 80)
VenueMax == 80

\* null and undefined: a value that is not a string
Null == <<"null">>

\* x without its fallback
OrElseNothing(x, d) == x

\* x || d
OrElse(x, d) == IF x = Null \/ x = <<>> THEN d ELSE x

----------------------------------------------------------------------------
(* parseTournamentsProgrammatically: the steps of one loop iteration.      *)

\* the matched text taken as the code without stripping its whitespace
NormalizedCodeUnstripped(rawCode) == rawCode

\* rawCode.replace(/\s+/g, '')
NormalizedCode(rawCode) == ReplaceWs(rawCode, <<>>)

\* a filter that checks the shape of the code but not the organisation
IsSussexAnyOrg(normalizedCode) ==
  Len(normalizedCode) >= 4 /\ normalizedCode[4] = "-"

\* normalizedCode.toUpperCase().startsWith("SUS-")
IsSussex(normalizedCode) == StartsWith(ToUpperCase(normalizedCode), <<"S", "U", "S", "-">>)

\* the whole text before the anchor
TextBeforeUnbounded(s, startIndex) == Substring(s, 0, startIndex)

\* normalizedText.substring(Math.max(0, startIndex - 1000), startIndex)
TextBefore(s, startIndex) ==
  Substring(s, IF startIndex - LookBehind > 0 THEN startIndex - LookBehind ELSE 0,
            startIndex)

\* for (const cat of categoryPatterns) if (cat.regex.test(textBefore)) ...
RECURSIVE TrackFrom(_, _, _)
TrackFrom(cur, textBefore, k) ==
  IF k > Len(categoryPatterns) THEN cur
  ELSE TrackFrom(IF Test(<<categoryPatterns[k].regex>>, textBefore)
                   THEN categoryPatterns[k].label ELSE cur,
                 textBefore, k + 1)

\* a loop that starts from Junior at every entry
TrackCategoryReset(cur, textBefore) == TrackFrom(Junior, textBefore, 1)

\* a loop that stops at the first pattern that matches
TrackCategoryFirst(cur, textBefore) ==
  LET matching == {h \in 1..Len(categoryPatterns) :
                     Test(<<categoryPatterns[h].regex>>, textBefore)}
  IN IF matching = {} THEN cur ELSE categoryPatterns[Min(matching)].label

TrackCategory(cur, textBefore) == TrackFrom(cur, textBefore, 1)

\* genderMatch ? genderMatch[0] : "Mixed"
GenderOf(chunk) ==
  LET genderMatch == Match(genderRegex, chunk)
  IN IF genderMatch.found THEN genderMatch.m ELSE <<"M", "i", "x", "e", "d">>

\* typeMatch ? typeMatch[0] : "Singles"
EventTypeOf(chunk) ==
  LET typeMatch == Match(typeRegex, chunk)
  IN IF typeMatch.found THEN typeMatch.m ELSE <<"S", "i", "n", "g", "l", "e", "s">>

\* a grade read after the word Grade only
GradeOfGradeOnly(chunk) ==
  LET gradeMatch == Match(<<gradeRegex[3]>>, chunk)
  IN IF gradeMatch.found THEN <<gradeMatch.m[Len(gradeMatch.m)]>> ELSE <<"4">>

\* gradeMatch ? gradeMatch[1] : "4"
GradeOf(chunk) ==
  LET gradeMatch == Match(gradeRegex, chunk)
  IN IF gradeMatch.found THEN <<gradeMatch.m[Len(gradeMatch.m)]>> ELSE <<"4">>

\* a date that is the empty string when the chunk has none
DateOfNoDefault(chunk) ==
  LET dateMatch == Match(dateRegex, chunk)
  IN IF dateMatch.found THEN ReplaceWs(dateMatch.m, <<" ">>) ELSE <<>>

\* dateMatch ? dateMatch[0].replace(/\s+/g, ' ') : "TBD"
DateOf(chunk) ==
  LET dateMatch == Match(dateRegex, chunk)
  IN IF dateMatch.found THEN ReplaceWs(dateMatch.m, <<" ">>) ELSE <<"T", "B", "D">>

\* a deadline read only at the first occurrence of the label
DeadlineOfFirstLabel(label, chunk) ==
  LET l == Match(<<LitI(label)>>, chunk)
      end == IF l.found THEN AltFrom(deadlineRegex(label), 1, chunk, l.index + 1) ELSE 0
  IN IF end # 0
     THEN StripLeading(WS, SubSeq(chunk, l.index + 1 + Len(label), end - 1))
     ELSE <<"N", "/", "A">>

\* cdMatch ? cdMatch[1] : "N/A", and the same for wdMatch; the group starts
\* after the label and the whitespace that follows it
DeadlineOf(label, chunk) ==
  LET dMatch == Match(deadlineRegex(label), chunk)
  IN IF dMatch.found
     THEN StripLeading(WS, SubSeq(dMatch.m, Len(label) + 1, Len(dMatch.m)))
     ELSE <<"N", "/", "A">>

\* emailMatch ? emailMatch[0].replace(/\s+/g, '') : ""
EmailOf(chunk) ==
  LET emailMatch == Match(emailRegex, chunk)
  IN IF emailMatch.found THEN ReplaceWs(emailMatch.m, <<>>) ELSE <<>>

\* Math.min(chunk.indexOf(gender) > -1 ? chunk.indexOf(gender) : chunk.length,
\*          chunk.indexOf(eventType) > -1 ? chunk.indexOf(eventType) : chunk.length)
TitleStopIndex(chunk, gender, eventType) ==
  Min({ IF IndexOf(chunk, gender) > -1 THEN IndexOf(chunk, gender) ELSE Len(chunk),
        IF IndexOf(chunk, eventType) > -1 THEN IndexOf(chunk, eventType)
        ELSE Len(chunk) })

\* title.replace(trailingDateRegex, ''): a match ends at the end of the title,
\* so there is at most one, the leftmost
RemoveTrailingDate(title) ==
  LET dMatch == Match(trailingDateRegex, title)
  IN IF dMatch.found THEN SubSeq(title, 1, dMatch.index) ELSE title

\* the four cleaning steps applied to the text between the code and the stop
CleanTitle(candidate) ==
  LET t1 == Trim(candidate)
      t2 == StripTrailing(DashOrWs, StripLeading(DashOrWs, t1))
      t3 == RemoveTrailingDate(t2)
  IN Trim(StripTrailing(DashOrWs, t3))

\* chunk.substring(rawCode.length, titleStopIndex), cleaned
TitleOf(chunk, rawCode, gender, eventType) ==
  CleanTitle(Substring(chunk, Len(rawCode), TitleStopIndex(chunk, gender, eventType)))


\* a venue that keeps all its characters
VenueOfUncut(chunk) ==
  LET dateMatch == Match(dateRegex, chunk)
      dateEndIndex == IndexOf(chunk, dateMatch.m) + Len(dateMatch.m)
      cdStartIndex == IndexOf(chunk, <<"C", "D", ":">>)
      venue == IF dateMatch.found /\ cdStartIndex > dateEndIndex
               THEN Trim(Substring(chunk, dateEndIndex, cdStartIndex))
               ELSE <<"S", "u", "s", "s", "e", "x", " ", "C", "l", "u", "b">>
  IN ReplaceWs(venue, <<" ">>)

\* the text between the date and "CD:", "Sussex Club" when there is none,
\* with its whitespace collapsed and cut to 80 characters
VenueOf(chunk) ==
  LET dateMatch == Match(dateRegex, chunk)
      dateEndIndex == IndexOf(chunk, dateMatch.m) + Len(dateMatch.m)
      cdStartIndex == IndexOf(chunk, <<"C", "D", ":">>)
      venue == IF dateMatch.found /\ cdStartIndex > dateEndIndex
               THEN Trim(Substring(chunk, dateEndIndex, cdStartIndex))
               ELSE <<"S", "u", "s", "s", "e", "x", " ", "C", "l", "u", "b">>
      collapsed == ReplaceWs(venue, <<" ">>)
  IN SubSeq(collapsed, 1, Min({VenueMax, Len(collapsed)}))

\* function extractPostcode(text)
ExtractPostcode(t) ==
  LET match == Match(postcodeRegex, t)
  IN IF match.found THEN ToUpperCase(ReplaceWs(match.m, <<" ">>)) ELSE Null

\* a postcode looked for in the whole chunk
PostcodeOfChunk(chunk, venue) == OrElse(ExtractPostcode(chunk), <<"B", "N", "1">>)

\* extractPostcode(venue) || "BN1"
PostcodeOf(chunk, venue) == OrElse(ExtractPostcode(venue), <<"B", "N", "1">>)

\* monthMap[monthAbbr]
MonthMap(monthAbbr) ==
  CASE monthAbbr = <<"J", "A", "N">> -> <<"J", "a", "n", "u", "a", "r", "y">>
    [] monthAbbr = <<"F", "E", "B">> -> <<"F", "e", "b", "r", "u", "a", "r", "y">>
    [] monthAbbr = <<"M", "A", "R">> -> <<"M", "a", "r", "c", "h">>
    [] monthAbbr = <<"A", "P", "R">> -> <<"A", "p", "r", "i", "l">>
    [] monthAbbr = <<"M", "A", "Y">> -> <<"M", "a", "y">>
    [] monthAbbr = <<"J", "U", "N">> -> <<"J", "u", "n", "e">>
    [] monthAbbr = <<"J", "U", "L">> -> <<"J", "u", "l", "y">>
    [] monthAbbr = <<"A", "U", "G">> -> <<"A", "u", "g", "u", "s", "t">>
    [] monthAbbr = <<"S", "E", "P">> -> <<"S", "e", "p", "t", "e", "m", "b", "e", "r">>
    [] monthAbbr = <<"O", "C", "T">> -> <<"O", "c", "t", "o", "b", "e", "r">>
    [] monthAbbr = <<"N", "O", "V">> -> <<"N", "o", "v", "e", "m", "b", "e", "r">>
    [] monthAbbr = <<"D", "E", "C">> -> <<"D", "e", "c", "e", "m", "b", "e", "r">>
    [] OTHER -> Null

\* a month label whose year is 2025 for a code with 25 anywhere in it
MonthOfLooseYear(dateStr, normalizedCode) ==
  LET monthAbbr == LastPart(ToUpperCase(dateStr))
      fullMonth == OrElse(MonthMap(monthAbbr), <<"U", "p", "c", "o", "m", "i", "n", "g">>)
      year == IF Includes(normalizedCode, <<"2", "5">>) THEN <<"2", "0", "2", "5">> ELSE <<"2", "0", "2", "6">>
  IN fullMonth \o <<" ">> \o year

\* `${fullMonth} ${year}`
MonthOf(dateStr, normalizedCode) ==
  LET monthAbbr == LastPart(ToUpperCase(dateStr))
      fullMonth == OrElse(MonthMap(monthAbbr), <<"U", "p", "c", "o", "m", "i", "n", "g">>)
      year == IF Includes(normalizedCode, <<"-", "2", "5", "-">>) THEN <<"2", "0", "2", "5">> ELSE <<"2", "0", "2", "6">>
  IN fullMonth \o <<" ">> \o year

\* an id whose whitespace is left as it is
UniqueIdUnreplaced(normalizedCode, gender, eventType, category) ==
  normalizedCode \o <<"-">> \o gender \o <<"-">> \o eventType \o <<"-">> \o category

\* an id built without the category
UniqueIdNoCategory(normalizedCode, gender, eventType, category) ==
  ReplaceWs(normalizedCode \o <<"-">> \o gender \o <<"-">> \o eventType, <<"_">>)

\* `${normalizedCode}-${gender}-${eventType}-${currentCategory}`.replace(/\s+/g, '_')
UniqueId(normalizedCode, gender, eventType, category) ==
  ReplaceWs(normalizedCode \o <<"-">> \o gender \o <<"-">> \o eventType
              \o <<"-">> \o category, <<"_">>)

\* the record of one retained entry
Tournament(chunk, rawCode, normalizedCode, category) ==
  LET gender == GenderOf(chunk)
      eventType == EventTypeOf(chunk)
      venue == VenueOf(chunk)
      dateStr == DateOf(chunk)
  IN [ id |-> UniqueId(normalizedCode, gender, eventType, category),
       title |-> OrElse(TitleOf(chunk, rawCode, gender, eventType),
                        category \o <<" ", "E", "v", "e", "n", "t">>),
       gender |-> gender,
       eventType |-> eventType,
       grade |-> <<"G", "r", "a", "d", "e", " ">> \o GradeOf(chunk),
       venue |-> venue,
       postcode |-> PostcodeOf(chunk, venue),
       ltaCode |-> normalizedCode,
       date |-> dateStr,
       month |-> MonthOf(dateStr, normalizedCode),
       category |-> category,
       organiserEmail |-> EmailOf(chunk),
       deadlineCD |-> DeadlineOf(<<"C", "D", ":">>, chunk),
       deadlineWD |-> DeadlineOf(<<"W", "D", ":">>, chunk) ]

\* INSERT OR REPLACE: a row with the id of t is overwritten
InsertOrReplace(table, t) ==
  IF \E k \in 1..Len(table) : table[k].id = t.id
  THEN [k \in 1..Len(table) |-> IF table[k].id = t.id THEN t ELSE table[k]]
  ELSE Append(table, t)

\* insertStmt.run(t): INSERT OR IGNORE on the primary key id
InsertOrIgnore(table, t) ==
  IF \E k \in 1..Len(table) : table[k].id = t.id THEN table ELSE Append(table, t)

\* result.changes of insertStmt.run(t)
Changes(table, t) ==
  IF \E k \in 1..Len(table) : table[k].id = t.id THEN 0 ELSE 1

\* insertMany(items): the table and the two counters after the loop over
\* the items from the k-th on
RECURSIVE InsertMany(_, _, _, _, _)
InsertMany(table, items, k, added, skipped) ==
  IF k > Len(items) THEN [table |-> table, added |-> added, skipped |-> skipped]
  ELSE IF Changes(table, items[k]) > 0
       THEN InsertMany(InsertOrIgnore(table, items[k]), items, k + 1, added + 1, skipped)
       ELSE InsertMany(InsertOrIgnore(table, items[k]), items, k + 1, added, skipped + 1)

\* a push that drops a record whose id is already in the list
PushUnique(list, t) ==
  IF \E k \in 1..Len(list) : list[k].id = t.id THEN list ELSE Append(list, t)

\* tournaments.push(t)
Push(list, t) == Append(list, t)

\* a chunk that ends at the next anchor of the organisation only
ChunkToNextSussex(s, ms, k) ==
  Substring(s, ms[k].index,
            Min({ms[n].index :
                   n \in {j \in 1..Len(ms) :
                            j > k /\ IsSussex(NormalizedCode(ms[j].raw))}}
                  \cup {Len(s)}))

\* the chunk of anchor k (1-based) of the anchors ms of the text s
ChunkOf(s, ms, k) ==
  Substring(s, ms[k].index,
            IF k + 1 <= Len(ms) THEN ms[k + 1].index ELSE Len(s))

----------------------------------------------------------------------------
(* Input texts: concatenations of fragments of calendar text.              *)

PadLen == 966
MaxFrags == 3
MaxSeqFrags == 2
MaxWinFrags == 3
MaxCalls == 2

Frag(name) ==
  CASE name = "sus" -> <<"S", "U", "S", "-", "2", "5", "-", "0", "4", "5", "5">>
    [] name = "ken" -> <<"K", "E", "N", "-", "2", "5", "-", "0", "0", "0", "1">>
    [] name = "lower" -> <<"s", "u", "s", "-", "2", "6", "-", "0", "0", "0", "7">>
    [] name = "spaced" -> <<"S", "U", "S", "ndash", "2", " ", "6", " ", "mdash", " ", "0", "4", "5", "5">>
    [] name = "h8" -> <<"8", " ", "&", " ", "U", " ", "E", "V", "E", "N", "T", "S">>
    [] name = "hopen" -> <<"O", "P", "E", "N", " ", "E", "V", "E", "N", "T", "S", " ", "ndash", " ", "M", "E", "N">>
    [] name = "male" -> <<" ", "M", "A", "L", "E", " ", "s", "i", "n", "g", "l", "e", "s", " ">>
    [] name = "hopensus" -> <<"O", "P", "E", "N", " ", "E", "V", "E", "N", "T", "S", " ", "ndash", " ", "M", "E", "N", " ", "S", "U", "S", "-", "2", "5", "-", "0", "4", "5", "5", " ">>
    [] name = "kenopen" -> <<"K", "E", "N", "-", "2", "5", "-", "0", "0", "0", "1", " ", "O", "P", "E", "N", " ", "E", "V", "E", "N", "T", "S", " ", "ndash", " ", "M", "E", "N", " ">>
    [] name = "susmale" -> <<"S", "U", "S", "-", "2", "5", "-", "0", "4", "5", "5", " ", "M", "A", "L", "E", " ", "s", "i", "n", "g", "l", "e", "s", " ">>
    [] name = "sat" -> <<"S", "a", "t", " ", "0", "6", " ", "S", "e", "p", " ">>
    [] name = "gap" -> <<"#", "#", "#", "#", "#", "#", "#", "#", "#", "#", "#", "#", "#", "#", "#", "#", "#", "#", "#", "#", "#", "#", "#", "#", "#", "#", "#", "#", "#", "#", "#", "#", "#", "#", "#", "#", "#", "#", "#", "#">>
    [] name = "pad" -> [k \in 1..PadLen |-> "#"]

RECURSIVE Chars(_)
Chars(t) == IF t = <<>> THEN <<>> ELSE Frag(Head(t)) \o Chars(Tail(t))

SeqsUpTo(S, n) == UNION {[1..k -> S] : k \in 0..n}

Frags == {"sus", "ken", "lower", "spaced", "h8", "hopensus", "male"}
SeqFrags == {"kenopen", "susmale"}
WinFrags == {"sus", "ken", "h8", "gap"}

Texts == {Chars(t) : t \in SeqsUpTo(Frags, MaxFrags)}
SeqTexts == {Chars(t) : t \in SeqsUpTo(SeqFrags, MaxSeqFrags)}
WinTexts == {Chars(<<"hopen", "pad">> \o t) : t \in SeqsUpTo(WinFrags, MaxWinFrags)}

\* the texts of the uploads: entries with the same code, gender and event
\* type, with and without a date, a heading or an entry of another
\* organisation
DbTexts ==
  { Chars(<<"susmale">>), Chars(<<"susmale", "sat">>),
    Chars(<<"kenopen", "susmale">>), Chars(<<"susmale", "sat", "susmale">>),
    Chars(<<"ken">>) }

\* the parts of one entry, each present in one of its forms or absent
TitleParts ==
  { <<>>, <<" ", "W", "i", "n", "t", "e", "r", " ", "O", "p", "e", "n">>, <<" ", "-", " ", "W", "i", "n", "t", "e", "r", " ", "O", "p", "e", "n", " ", "ndash", " ", "1", "-", "1", "1", "-", "2", "0", "2", "5", " ", "-">>,
    <<" ", "C", "u", "p", " ", "-", " ", "1", "-", "1", "1", "-", "2", "0", "2", "5", " ", "-", " ", "0", "1", "/", "1", "2", "/", "2", "5">>, <<" ", "M", "a", "l", "e", "s", "t", "o", "n", " ", "O", "p", "e", "n">>, <<" ", "-", " ", "1", "-", "1", "1", "-", "2", "0", "2", "5">> }
GenderParts == { <<>>, <<" ", "M", "a", "l", "e", " ", "S", "i", "n", "g", "l", "e", "s", " ", "3">> }
DateParts == { <<>>, <<" ", "S", "a", "t", " ", " ", "0", "6", " ", "S", "e", "p">> }
VenueParts == { <<>>, <<" ", "H", "o", "v", "e", " ", "P", "a", "r", "k", " ", "B", "N", "3", " ", "1", "r", "p">> }
CdParts == { <<>>, <<" ", "C", "D", ":", " ", "0", "1", "/", "0", "9", "/", "2", "0", "2", "5", " ", "1", "0", ":", "0", "0">>, <<" ", "C", "D", ":", " ", "0", "1", "/", "0", "9", "/", "2", "0">> }
WdParts == { <<>>, <<" ", "W", "D", ":", " ", "0", "3", "/", "0", "9", "/", "2", "0", "2", "5", " ", "1", "0", ":", "0", "0">> }
EmailParts == { <<>>, <<" ", "i", "n", "f", "o", "@", "h", "o", "v", "e", ".", "u", "k">> }
TailParts == { <<>>, <<" ", "K", "E", "N", "-", "2", "5", "-", "0", "0", "0", "1", " ", "F", "e", "m", "a", "l", "e", " ", "D", "o", "u", "b", "l", "e", "s", " ", "5">> }

\* one entry of the organisation, alone or followed by an entry of another,
\* and two texts without an anchor
FieldTexts ==
  { Frag("sus") \o t \o g \o d \o v \o c \o w \o e \o z :
      t \in TitleParts, g \in GenderParts, d \in DateParts, v \in VenueParts,
      c \in CdParts, w \in WdParts, e \in EmailParts, z \in TailParts }
    \cup { <<>>, Frag("lower") \o <<" ", "W", "i", "n", "t", "e", "r", " ", "O", "p", "e", "n", " ", "M", "a", "l", "e", " ", "S", "i", "n", "g", "l", "e", "s">> }

\* the parts of an entry with the forms of its grade, date, venue, deadlines
\* and postcode, after nothing, an 18U heading or an entry of another
\* organisation
HeadParts ==
  { <<>>, <<"1", "8", " ", "&", " ", "U", " ", "E", "V", "E", "N", "T", "S", " ">>, <<"1", "8", " ", "&", " ", "U", " ", "E", "V", "E", "N", "T", "S", " ", "-", " ", "B", "O", "Y", "S", " ">>,
    <<"K", "E", "N", "-", "2", "5", "-", "0", "0", "0", "1", " ", "H", "o", "v", "e", " ", "B", "N", "3", " ", "1", "R", "P", " ">> }
CodeParts == { <<"S", "U", "S", "-", "2", "5", "-", "0", "4", "5", "5">>, <<"S", "U", "S", "-", "2", "6", "-", "0", "2", "5", "5">> }
KindParts ==
  { <<>>, <<" ", "M", "a", "l", "e", " ", "S", "i", "n", "g", "l", "e", "s", " ", "3">>, <<" ", "F", "e", "m", "a", "l", "e", " ", "D", "o", "u", "b", "l", "e", "s", " ", "G", "r", "a", "d", "e", " ", "5">>, <<" ", "M", "i", "x", "e", "d", " ", "S", "i", "n", "g", "l", "e", "s">>,
    <<" ", "M", "a", "l", "e", " ", "D", "o", "u", "b", "l", "e", "s", " ", "C", "D", ":", " ", "t", "b", "a">> }
DayParts == { <<>>, <<" ", "S", "a", "t", " ", "0", "6", " ", "S", "e", "p">>, <<" ", "s", "u", "n", " ", " ", "7", " ", "o", "c", "t">>, <<" ", "S", "a", "t", "0", "6", "S", "e", "p">> }
PlaceParts ==
  { <<>>, <<" ", "H", "o", "v", "e", " ", "P", "a", "r", "k", " ", "B", "N", "3", " ", "1", "r", "p">>,
    <<" ", "B", "r", "i", "g", "h", "t", "o", "n", " ", "a", "n", "d", " ", "H", "o", "v", "e", " ", "L", "a", "w", "n", " ", "T", "e", "n", "n", "i", "s", " ", "C", "l", "u", "b", ",", " ", " ", "T", "h", "e", " ", "D", "r", "o", "v", "e", "w", "a", "y", ",", " ", " ", "H", "o", "v", "e", ",", " ", " ", "E", "a", "s", "t", " ", "S", "u", "s", "s", "e", "x", ",", " ", " ", "E", "n", "g", "l", "a", "n", "d", " ", " ", "B", "N", "3", " ", "6", "L", "U">> }
DeadlineParts ==
  { <<>>, <<" ", "C", "D", ":", " ", "0", "1", "/", "0", "9", "/", "2", "0", "2", "5", " ", "1", "0", ":", "0", "0", " ", "W", "D", ":", " ", "0", "3", "/", "0", "9", "/", "2", "0", "2", "5", " ", "1", "0", ":", "0", "0">>,
    <<" ", "W", "D", ":", " ", "0", "3", "/", "0", "9", "/", "2", "0", "2", "5", " ", "1", "0", ":", "0", "0", " ", "C", "D", ":", " ", "0", "1", "/", "0", "9", "/", "2", "0", "2", "5", " ", " ", "1", "0", ":", "0", "0">>, <<" ", "c", "d", ":", " ", "0", "1", "/", "0", "9", "/", "2", "0", "2", "5", " ", "1", "0", ":", "0", "0">>,
    <<" ", "C", "D", ":", " ", "t", "b", "c", " ", "W", "D", ":", " ", "0", "3", "/", "0", "9", "/", "2", "0", "2", "5", " ", "1", "0", ":", "0", "0", " ", "C", "D", ":", " ", "0", "2", "/", "0", "9", "/", "2", "0", "2", "5", " ", "1", "0", ":", "0", "0">>,
    <<" ", "W", "D", ":", " ", "0", "3", "/", "0", "9", "/", "2", "0", "2", "5", " ", "1", "0", ":", "0", "0", " ", "B", "N", "2", " ", "1", "A", "A">> }

EntryTexts ==
  { c \o g \o d \o v \o t :
      c \in CodeParts, g \in KindParts, d \in DayParts,
      v \in PlaceParts, t \in DeadlineParts }
    \cup { h \o c \o g : h \in HeadParts, c \in CodeParts, g \in KindParts }

----------------------------------------------------------------------------
(* The state machine: a process that serves parse calls one after another. *)
(* pending are the texts of the calls still to come, results the texts and *)
(* the returned lists of the calls that have returned, offsets the anchor  *)
(* offset of each record of tournaments.                                   *)

Idle ==
  /\ text = <<>>
  /\ normalizedText = <<>>
  /\ codeMatches = <<>>
  /\ currentCategory = Junior
  /\ i = 0
  /\ tournaments = <<>>
  /\ offsets = <<>>
  /\ pc = "idle"
  /\ results = <<>>
  /\ rows = <<>>
  /\ inserted = <<>>
  /\ reports = <<>>

\* one call on one text
Init == pending \in {<<t>> : t \in Texts} /\ Idle

\* a sequence of calls
InitSeq ==
  /\ pending \in UNION {[1..n -> SeqTexts] : n \in 1..MaxCalls}
  /\ Idle

\* one call on a text longer than the lookbehind window
InitWin == pending \in {<<t>> : t \in WinTexts} /\ Idle

\* one call on the text of one entry
InitFields == pending \in {<<t>> : t \in FieldTexts} /\ Idle

\* a sequence of uploads into an empty table
InitDb ==
  /\ pending \in UNION {[1..n -> DbTexts] : n \in 1..MaxCalls}
  /\ Idle

\* one call on the text of one entry with its fields in several forms
InitEntry == pending \in {<<t>> : t \in EntryTexts} /\ Idle

\* a call that keeps the category the previous call ended with
CallKeepingCategory ==
  /\ pc = "idle"
  /\ pending # <<>>
  /\ text' = Head(pending)
  /\ pending' = Tail(pending)
  /\ normalizedText' = NormalizeDashes(Head(pending))
  /\ codeMatches' = MatchAll(entryStartRegex, NormalizeDashes(Head(pending)))
  /\ i' = 0
  /\ tournaments' = <<>>
  /\ offsets' = <<>>
  /\ pc' = "loop"
  /\ UNCHANGED <<currentCategory, results>>
  /\ UNCHANGED dbVars

\* entry: normalizedText, codeMatches, currentCategory = "Junior"
Call ==
  /\ pc = "idle"
  /\ pending # <<>>
  /\ text' = Head(pending)
  /\ pending' = Tail(pending)
  /\ normalizedText' = NormalizeDashes(Head(pending))
  /\ codeMatches' = MatchAll(entryStartRegex, NormalizeDashes(Head(pending)))
  /\ currentCategory' = Junior
  /\ i' = 0
  /\ tournaments' = <<>>
  /\ offsets' = <<>>
  /\ pc' = "loop"
  /\ UNCHANGED results
  /\ UNCHANGED dbVars

\* an iteration that tracks the category before it ends at `continue`
SkipTracking ==
  /\ pc = "loop"
  /\ i < Len(codeMatches)
  /\ ~IsSussex(NormalizedCode(codeMatches[i + 1].raw))
  /\ currentCategory' = TrackCategory(currentCategory,
                                      TextBefore(normalizedText,
                                                 codeMatches[i + 1].index))
  /\ i' = i + 1
  /\ UNCHANGED <<pending, text, normalizedText, codeMatches,
                 tournaments, offsets, pc, results>>
  /\ UNCHANGED dbVars

\* an iteration that ends at `continue`: the anchor is not a Sussex code
Skip ==
  /\ pc = "loop"
  /\ i < Len(codeMatches)
  /\ ~IsSussex(NormalizedCode(codeMatches[i + 1].raw))
  /\ i' = i + 1
  /\ UNCHANGED <<pending, text, normalizedText, codeMatches, currentCategory,
                 tournaments, offsets, pc, results>>
  /\ UNCHANGED dbVars

\* an iteration that pushes a record
Entry ==
  /\ pc = "loop"
  /\ i < Len(codeMatches)
  /\ LET match == codeMatches[i + 1]
         normalizedCode == NormalizedCode(match.raw)
         startIndex == match.index
         chunk == ChunkOf(normalizedText, codeMatches, i + 1)
         category == TrackCategory(currentCategory,
                                   TextBefore(normalizedText, startIndex))
     IN /\ IsSussex(normalizedCode)
        /\ currentCategory' = category
        /\ tournaments' = Push(tournaments,
                                Tournament(chunk, match.raw, normalizedCode, category))
        /\ offsets' = Append(offsets, startIndex)
  /\ i' = i + 1
  /\ UNCHANGED <<pending, text, normalizedText, codeMatches, pc, results>>
  /\ UNCHANGED dbVars

\* return tournaments
Return ==
  /\ pc = "loop"
  /\ i >= Len(codeMatches)
  /\ pc' = "idle"
  /\ results' = Append(results, [text |-> text, out |-> tournaments])
  /\ UNCHANGED <<pending, text, normalizedText, codeMatches, currentCategory,
                 i, tournaments, offsets>>
  /\ UNCHANGED dbVars

Next == Call \/ Skip \/ Entry \/ Return

\* POST /api/tournaments/upload: the parse of the extracted text begins, once
\* the upload before it has been answered
Upload ==
  /\ Len(reports) = Len(results)
  /\ Call

\* POST /api/tournaments/upload: insertTournaments(parsed)
InsertTournaments ==
  /\ pc = "idle"
  /\ Len(reports) < Len(results)
  /\ LET parsed == results[Len(results)].out
         done == InsertMany(rows, parsed, 1, 0, 0)
     IN /\ rows' = done.table
        /\ inserted' = inserted \o parsed
        /\ reports' = Append(reports, [added |-> done.added, skipped |-> done.skipped])
  /\ UNCHANGED <<pending, text, normalizedText, codeMatches, currentCategory,
                 i, tournaments, offsets, pc, results>>

NextDb == Upload \/ Skip \/ Entry \/ Return \/ InsertTournaments

Spec == Init /\ [][Next]_vars
SpecSeq == InitSeq /\ [][Next]_vars
SpecWin == InitWin /\ [][Next]_vars
SpecFields == InitFields /\ [][Next]_vars
SpecDb == InitDb /\ [][NextDb]_vars
SpecEntry == InitEntry /\ [][Next]_vars

----------------------------------------------------------------------------
(* Properties.                                                             *)

\* the last call has returned
Returned == pc = "idle" /\ results # <<>>

\* a string without its whitespace
Stripped(s) == SelectSeq(s, LAMBDA c : c \notin WS)

\* the anchor is one of the organisation: its stripped, upper-cased code
\* begins with SUS-
SussexAnchor(m) == StartsWith(ToUpperCase(Stripped(m.raw)), <<"S", "U", "S", "-">>)

\* the anchors of the text that the claims call retained
Retained == {m \in 1..Len(codeMatches) : SussexAnchor(codeMatches[m])}

\* the anchors the loop has gone through
Visited == {m \in 1..Len(codeMatches) : m <= i}

\* every record of the calls that have returned and of the call under way
AllRecords ==
  {tournaments[k] : k \in 1..Len(tournaments)}
    \cup UNION {Range(results[c].out) : c \in 1..Len(results)}

SameKey(r, q) ==
  /\ r.ltaCode = q.ltaCode
  /\ r.gender = q.gender
  /\ r.eventType = q.eventType
  /\ r.category = q.category

\* C1: every record's ltaCode begins with SUS-, and every record comes from
\* an anchor whose whitespace-stripped, upper-cased code begins with SUS-:
\* an anchor of another organisation that the loop has gone through has no
\* record.
C1_OnlySussexRecords ==
  /\ Len(offsets) = Len(tournaments)
  /\ \A k \in 1..Len(tournaments) :
       /\ StartsWith(tournaments[k].ltaCode, <<"S", "U", "S", "-">>)
       /\ \E m \in Visited \cap Retained : codeMatches[m].index = offsets[k]
  /\ \A m \in Visited \ Retained :
       \A k \in 1..Len(offsets) : offsets[k] # codeMatches[m].index

\* a call has returned records for a text that also has an anchor of
\* another organisation
C1_Witness ==
  /\ Returned
  /\ tournaments # <<>>
  /\ \E m \in 1..Len(codeMatches) :
       /\ m \notin Retained
       /\ Stripped(codeMatches[m].raw) = <<"K", "E", "N", "-", "2", "5", "-", "0", "0", "0", "1">>

\* C2: the returned list has exactly one record per retained anchor, in the
\* order of the anchors: the offsets of the records ascend strictly and are
\* the offsets of the retained anchors, and no record is dropped or merged.
C2_OneRecordPerAnchorInOrder ==
  Returned =>
    /\ Len(tournaments) = Cardinality(Retained)
    /\ Len(offsets) = Len(tournaments)
    /\ \A k \in 1..(Len(offsets) - 1) : offsets[k] < offsets[k + 1]
    /\ {offsets[k] : k \in 1..Len(offsets)}
         = {codeMatches[m].index : m \in Retained}
    /\ \A k \in 1..Len(tournaments) :
         \E m \in Retained :
           /\ codeMatches[m].index = offsets[k]
           /\ tournaments[k].ltaCode = Stripped(codeMatches[m].raw)
    /\ results[Len(results)].out = tournaments

\* a call has returned two records with the same composite key, with an
\* anchor of another organisation between them
C2_Witness ==
  /\ Returned
  /\ Len(tournaments) >= 2
  /\ tournaments[1].id = tournaments[2].id
  /\ \E m \in 1..Len(codeMatches) :
       /\ m \notin Retained
       /\ offsets[1] < codeMatches[m].index
       /\ codeMatches[m].index < offsets[2]

\* C3: the calls of a process do not influence one another: two calls on the
\* same text return the same list, every call starts its loop with the
\* category Junior whatever the earlier calls ended with, and a call returns
\* another category than Junior only for a text that has a heading itself.
C3_Stateless ==
  /\ \A a, b \in 1..Len(results) :
       results[a].text = results[b].text => results[a].out = results[b].out
  /\ (pc = "loop" /\ i = 0) => currentCategory = Junior
  /\ (Returned /\ \E k \in 1..Len(tournaments) : tournaments[k].category # Junior)
       => \E h \in 1..Len(categoryPatterns) :
            Test(<<categoryPatterns[h].regex>>, NormalizeDashes(text))

\* a call that ended with another category than Junior has been followed by
\* a call whose first record has the category Junior
C3_Witness ==
  /\ Len(results) = 2
  /\ results[1].out # <<>>
  /\ results[1].out[Len(results[1].out)].category # Junior
  /\ results[2].out # <<>>
  /\ results[2].out[1].category = Junior

\* a string with each run of whitespace replaced by one underscore
RECURSIVE Underscored(_)
Underscored(s) ==
  IF s = <<>> THEN <<>>
  ELSE IF Head(s) \notin WS THEN <<Head(s)>> \o Underscored(Tail(s))
  ELSE IF Tail(s) # <<>> /\ Head(Tail(s)) \in WS THEN Underscored(Tail(s))
  ELSE <<"_">> \o Underscored(Tail(s))

\* C4: the id of a record is its code, gender, eventType and category joined
\* by hyphens, with every run of whitespace replaced by an underscore; so two
\* records, of the same or of different calls, that agree on the four fields
\* have the same id.
C4_IdIsFunctionOfKey ==
  /\ \A r \in AllRecords :
       r.id = Underscored(r.ltaCode \o <<"-">> \o r.gender \o <<"-">>
                            \o r.eventType \o <<"-">> \o r.category)
  /\ \A r, q \in AllRecords : SameKey(r, q) => r.id = q.id

\* two calls on different texts have each returned a record with the same
\* four fields, one of them from a text with a gender word and an event word
C4_Witness ==
  /\ Len(results) = 2
  /\ results[1].text # results[2].text
  /\ \E r \in Range(results[1].out) : \E q \in Range(results[2].out) :
       SameKey(r, q) /\ r.gender = <<"M", "A", "L", "E">>

\* C5: two records that differ in the code, the gender, the eventType or the
\* category have different ids.
C5_IdInjective ==
  \A r, q \in AllRecords : r.id = q.id => SameKey(r, q)

\* a call has returned two records that differ in the category only
C5_Witness ==
  /\ Returned
  /\ \E a, b \in 1..Len(tournaments) :
       /\ tournaments[a].ltaCode = tournaments[b].ltaCode
       /\ tournaments[a].gender = tournaments[b].gender
       /\ tournaments[a].eventType = tournaments[b].eventType
       /\ tournaments[a].category # tournaments[b].category

\* a heading pattern matches in the string
HeadingIn(s) ==
  \E h \in 1..Len(categoryPatterns) : Test(<<categoryPatterns[h].regex>>, s)

\* the labels of the heading patterns that match in the string
LabelsIn(s) ==
  {categoryPatterns[h].label :
     h \in {g \in 1..Len(categoryPatterns) :
              Test(<<categoryPatterns[g].regex>>, s)}}

\* the text between the anchors of the records k and k+1 that lies in the
\* lookbehind window of the second
BetweenText(k) ==
  Substring(normalizedText,
            IF offsets[k + 1] - LookBehind > offsets[k]
              THEN offsets[k + 1] - LookBehind ELSE offsets[k],
            offsets[k + 1])

\* the text in the lookbehind window of the anchor of record k that the
\* anchor of the record before it has not seen
NewText(k) ==
  IF k = 1 THEN TextBefore(normalizedText, offsets[1]) ELSE BetweenText(k - 1)

\* C6: two consecutive records have the same category when no heading
\* appears between their anchors, in the lookbehind window of the second.
C6_CarryOver ==
  \A k \in 1..(Len(tournaments) - 1) :
    ~HeadingIn(BetweenText(k))
      => tournaments[k + 1].category = tournaments[k].category

\* C7: when a heading lies in the lookbehind window of a retained anchor,
\* after the anchor of the record before it, the category of the record is
\* the label of such a heading, and the next record keeps it when no heading
\* appears before its anchor.
C7_HeadingOverrides ==
  \A k \in 1..Len(tournaments) :
    HeadingIn(NewText(k)) =>
      /\ tournaments[k].category \in LabelsIn(NewText(k))
      /\ (k < Len(tournaments) /\ ~HeadingIn(NewText(k + 1)))
           => tournaments[k + 1].category = tournaments[k].category

\* C8: the gender of a record is Mixed, Male or Female and its eventType is
\* Singles or Doubles, in exactly this spelling.
C8_GenderAndTypeEnumerated ==
  \A r \in AllRecords :
    /\ r.gender \in {<<"M", "i", "x", "e", "d">>, <<"M", "a", "l", "e">>, <<"F", "e", "m", "a", "l", "e">>}
    /\ r.eventType \in {<<"S", "i", "n", "g", "l", "e", "s">>, <<"D", "o", "u", "b", "l", "e", "s">>}

\* the anchor pattern with letters of either case
entryStartAnyCase ==
  [k \in 1..Len(entryStartRegex) |->
     IF entryStartRegex[k].cs = Upper THEN One(Upper \cup Lower)
     ELSE entryStartRegex[k]]

\* C9: a code of the organisation written in any letter case, with or
\* without whitespace between its characters, is an anchor that yields a
\* record, whose code is the matched text without its whitespace.
C9_AnchorInAnyCase ==
  Returned =>
    \A m \in Range(MatchAll(entryStartAnyCase, normalizedText)) :
      SussexAnchor(m) =>
        \E k \in 1..Len(tournaments) :
          /\ offsets[k] = m.index
          /\ tournaments[k].ltaCode = Stripped(m.raw)

\* C10: the code of a record is three upper-case letters, a hyphen, two
\* digits, a hyphen and four digits, without whitespace.
C10_CanonicalCode ==
  \A r \in AllRecords :
    /\ Len(r.ltaCode) = 11
    /\ \A p \in {1, 2, 3} : r.ltaCode[p] \in Upper
    /\ \A p \in {4, 7} : r.ltaCode[p] = "-"
    /\ \A p \in {5, 6, 8, 9, 10, 11} : r.ltaCode[p] \in Digit

\* a record has been built from a code that the text writes with whitespace
\* between its characters and with an en dash or an em dash
C10_Witness ==
  \E k \in 1..Len(tournaments) : \E m \in 1..Len(codeMatches) :
    /\ codeMatches[m].index = offsets[k]
    /\ \E p \in 1..Len(codeMatches[m].raw) : codeMatches[m].raw[p] \in WS
    /\ \E p \in 1..Len(codeMatches[m].raw) :
         text[codeMatches[m].index + p] \in {"ndash", "mdash"}

\* the offset at which the entry of record k ends: the next anchor of any
\* organisation, the end of the text when there is none
EntryEnd(k) ==
  Min({codeMatches[m].index :
         m \in {n \in 1..Len(codeMatches) : codeMatches[n].index > offsets[k]}}
        \cup {Len(normalizedText)})

\* the text of the entry of record k
EntryText(k) == Substring(normalizedText, offsets[k], EntryEnd(k))

Weekdays == {<<"s", "a", "t">>, <<"s", "u", "n">>, <<"m", "o", "n">>, <<"t", "u", "e">>, <<"w", "e", "d">>, <<"t", "h", "u">>, <<"f", "r", "i">>}

\* a date begins at position p of s: a weekday abbreviation in any case, a
\* day of one or two digits and three word characters, with or without
\* whitespace between them
DateAt(s, p) ==
  /\ p + 2 <= Len(s)
  /\ [k \in 1..3 |-> ToLowerChar(s[p + k - 1])] \in Weekdays
  /\ LET a == p + 3 + Run(WS, s, p + 3, -1)
     IN \E d \in 1..Run(Digit, s, a, 2) :
          LET b == a + d + Run(WS, s, a + d, -1)
          IN b + 2 <= Len(s) /\ \A k \in 0..2 : s[b + k] \in WordChars

HasDate(s) == \E p \in 1..Len(s) : DateAt(s, p)

\* C11: an entry of the organisation whose text has no date (weekday, day,
\* three word characters) still has its record, and the date of the record
\* is TBD.
C11_NoDateGivesTBD ==
  /\ Returned =>
       \A m \in Retained : \E k \in 1..Len(offsets) : offsets[k] = codeMatches[m].index
  /\ \A k \in 1..Len(tournaments) :
       ~HasDate(EntryText(k)) => tournaments[k].date = <<"T", "B", "D">>

\* a call has returned the record of an entry that has a closing deadline
\* and an email address but no date
C11_Witness ==
  /\ Returned
  /\ \E k \in 1..Len(tournaments) :
       /\ ~HasDate(EntryText(k))
       /\ tournaments[k].date = <<"T", "B", "D">>
       /\ tournaments[k].deadlineCD = <<"0", "1", "/", "0", "9", "/", "2", "0", "2", "5", " ", "1", "0", ":", "0", "0">>
       /\ tournaments[k].organiserEmail # <<>>

\* the characters a string is made of
Character ==
  Upper \cup Lower \cup Digit \cup WS \cup Dashes
    \cup Range(<<" ", "!", "#", "$", "%", "&", "'", "+", ",", ".", "/", ":", ";", "=", "?", "@", "_">>)

IsString(x) == DOMAIN x = 1..Len(x) /\ \A p \in 1..Len(x) : x[p] \in Character

FieldNames ==
  { "id", "title", "gender", "eventType", "grade", "venue", "postcode",
    "ltaCode", "date", "month", "category", "organiserEmail", "deadlineCD",
    "deadlineWD" }

\* s has the word in any letter case
HasWord(s, word) == Includes(ToUpperCase(s), ToUpperCase(word))

dateFragmentAtEnd ==
  << << One(Dashes), Star(WS), Rep(Digit, 1, 2), Star(WS), One({"-", "/"}),
        Star(WS), Rep(Digit, 1, 2), Star(WS), One({"-", "/"}), Star(WS),
        Rep(Digit, 2, 4), End >> >>

\* C13: the title of a record neither begins nor ends with whitespace or a
\* dash, and does not end with a date fragment.
C13_TitleTrimmed ==
  \A r \in AllRecords :
    /\ r.title # <<>>
    /\ r.title[1] \notin DashOrWs
    /\ r.title[Len(r.title)] \notin DashOrWs
    /\ ~Test(dateFragmentAtEnd, r.title)

\* the position in inserted of the first record with the id
FirstInserted(id) == Min({j \in 1..Len(inserted) : inserted[j].id = id})

\* C14: after any sequence of uploads the table has one row for each id
\* that was inserted, and the row is the first record inserted with that
\* id; each insertTournaments call reports added + skipped equal to the
\* number of records it was given, and added rows are the rows of the table.
C14_FirstSeenKept ==
  /\ \A a, b \in 1..Len(rows) : rows[a].id = rows[b].id => a = b
  /\ \A j \in 1..Len(inserted) : \E k \in 1..Len(rows) : rows[k].id = inserted[j].id
  /\ \A k \in 1..Len(rows) :
       /\ \E j \in 1..Len(inserted) : inserted[j].id = rows[k].id
       /\ rows[k] = inserted[FirstInserted(rows[k].id)]
  /\ \A c \in 1..Len(reports) :
       reports[c].added + reports[c].skipped = Len(results[c].out)
  /\ Len(rows) <= Len(inserted)
  /\ (reports # <<>> /\ Len(reports) = Len(results)) =>
       LET RECURSIVE Added(_)
           Added(c) == IF c = 0 THEN 0 ELSE reports[c].added + Added(c - 1)
       IN Added(Len(reports)) = Len(rows)

\* two uploads have been stored, and a record of the second upload has the
\* id of a row but another date
C14_Witness ==
  /\ Len(reports) = 2
  /\ reports[2].skipped > 0
  /\ \E q \in Range(results[2].out) : \E k \in 1..Len(rows) :
       /\ rows[k].id = q.id
       /\ rows[k].date # q.date
       /\ rows[k] \in Range(results[1].out)

\* C15: the record of an entry is built from the text between its anchor
\* and the next anchor of any organisation (the end of the text when there
\* is none) and from nothing after it: every extracted field is the field
\* of that text.
C15_ChunkBoundary ==
  \A k \in 1..Len(tournaments) :
    \E m \in 1..Len(codeMatches) :
      /\ codeMatches[m].index = offsets[k]
      /\ EntryEnd(k) = IF m < Len(codeMatches) THEN codeMatches[m + 1].index
                       ELSE Len(normalizedText)
      /\ tournaments[k]
           = Tournament(EntryText(k), codeMatches[m].raw,
                        Stripped(codeMatches[m].raw), tournaments[k].category)

\* a call has returned a record of an entry that ends at an anchor of
\* another organisation; a gender word follows that anchor, and the record
\* has the default gender
C15_Witness ==
  /\ Returned
  /\ \E k \in 1..Len(tournaments) : \E m \in 1..Len(codeMatches) :
       /\ m \notin Retained
       /\ codeMatches[m].index = EntryEnd(k)
       /\ HasWord(Substring(normalizedText, EntryEnd(k), Len(normalizedText)),
                  <<"M", "a", "l", "e">>)
       /\ ~HasWord(EntryText(k), <<"M", "a", "l", "e">>)
       /\ tournaments[k].gender = <<"M", "i", "x", "e", "d">>

\* the lookbehind window of record k: the 1000 characters before its anchor
Window(k) ==
  Substring(normalizedText,
            IF offsets[k] > 1000 THEN offsets[k] - 1000 ELSE 0, offsets[k])

\* the positions in the priority list of the patterns that match in s
MatchingIn(s) ==
  {h \in 1..Len(categoryPatterns) : Test(<<categoryPatterns[h].regex>>, s)}

\* C16: when heading patterns match in the window of an entry, its category
\* is the label of the matching pattern that is last in the priority list,
\* wherever the headings lie in the window.
C16_LastPatternWins ==
  \A k \in 1..Len(tournaments) :
    MatchingIn(Window(k)) # {} =>
      tournaments[k].category = categoryPatterns[Max(MatchingIn(Window(k)))].label

\* a call has returned a record whose window has an Open heading and, nearer
\* to the anchor, an 8U heading, and whose category is Open Men
C16_Witness ==
  /\ Returned
  /\ \E k \in 1..Len(tournaments) :
       /\ MatchingIn(Window(k)) = {1, 14}
       /\ Match(<<categoryPatterns[1].regex>>, Window(k)).index
            > Match(<<categoryPatterns[14].regex>>, Window(k)).index
       /\ tournaments[k].category = <<"O", "p", "e", "n", " ", "M", "e", "n">>

\* the category of the record before record k, Junior for the first
PreviousCategory(k) == IF k = 1 THEN Junior ELSE tournaments[k - 1].category

\* C17: when no heading pattern matches in the window of an entry, its
\* category is the category of the record before it, Junior when it is the
\* first record.
C17_NoHeadingKeepsCategory ==
  \A k \in 1..Len(tournaments) :
    MatchingIn(Window(k)) = {} => tournaments[k].category = PreviousCategory(k)

\* a call has returned a record whose window has no heading and whose
\* category is the Open Men of the record before it
C17_Witness ==
  /\ Returned
  /\ \E k \in 2..Len(tournaments) :
       /\ MatchingIn(Window(k)) = {}
       /\ tournaments[k - 1].category = <<"O", "p", "e", "n", " ", "M", "e", "n">>
       /\ tournaments[k].category = <<"O", "p", "e", "n", " ", "M", "e", "n">>

\* the text that lies more than 1000 characters before the anchor of record k
OldText(k) ==
  Substring(normalizedText, 0, IF offsets[k] > 1000 THEN offsets[k] - 1000 ELSE 0)

\* the positions of s that belong to a heading
HeadingChars(s) ==
  UNION { { p \in (m.index + 1)..(m.index + Len(m.raw)) : TRUE } :
            m \in UNION { Range(MatchAll(categoryPatterns[h].regex, s)) :
                            h \in 1..Len(categoryPatterns) } }

\* the text with every heading that lies entirely more than 1000 characters
\* before the anchor of record k overwritten
WithoutOldHeadings(k) ==
  LET old == OldText(k)
      hc == HeadingChars(old)
  IN [p \in 1..Len(old) |-> IF p \in hc THEN "#" ELSE old[p]]
       \o SubSeq(normalizedText, Len(old) + 1, Len(normalizedText))

\* the category of the j-th retained entry when the text is doc
RECURSIVE CategoryIn(_, _)
CategoryIn(doc, j) ==
  IF j = 0 THEN Junior
  ELSE TrackCategory(CategoryIn(doc, j - 1), TextBefore(doc, offsets[j]))

\* C18 as stated: a heading that lies entirely more than 1000 characters
\* before the anchor of an entry has no influence on the category of the
\* entry: the text without that heading gives the entry the same category.
C18_OldHeadingNoInfluence ==
  \A k \in 1..Len(tournaments) :
    tournaments[k].category = CategoryIn(WithoutOldHeadings(k), k)

\* C18 as amended: a heading that lies entirely more than 1000 characters
\* before the anchor of an entry is not tested for the entry; it has no
\* influence on the category of the first retained entry, and the category
\* of a later entry is the label of a heading in its window or the
\* category of the record before it, in every list a call returns.
C18_OldHeadingOnlyCarried ==
  Returned =>
    /\ tournaments # <<>> =>
         tournaments[1].category = CategoryIn(WithoutOldHeadings(1), 1)
    /\ \A k \in 1..Len(tournaments) :
         \/ tournaments[k].category = PreviousCategory(k)
         \/ tournaments[k].category \in LabelsIn(Window(k))

\* a call has returned a first record whose anchor has a heading more than
\* 1000 characters before it and none in its window, with the category
\* Junior
C18_Witness ==
  /\ Returned
  /\ tournaments # <<>>
  /\ HeadingIn(OldText(1))
  /\ ~HeadingIn(Window(1))
  /\ tournaments[1].category = Junior

\* the category the loop holds is the one of the last record, Junior when
\* there is none
LastCategory ==
  IF tournaments = <<>> THEN Junior ELSE tournaments[Len(tournaments)].category

\* C19: an anchor of another organisation adds no record and leaves the
\* tracked category as it is: the loop holds the category of the last
\* record and has one record per entry of the organisation it has gone
\* through; so an entry without a heading in its own window keeps the
\* category of the record before it whatever the windows of the anchors
\* between them held, and an entry with a heading in its window has the
\* label of such a heading whatever anchors lie between the two.
C19_FilteredAnchorChangesNothing ==
  /\ pc = "loop" =>
       /\ currentCategory = LastCategory
       /\ Len(tournaments) = Cardinality(Visited \cap Retained)
  /\ Returned =>
       \A k \in 1..Len(tournaments) :
         IF HeadingIn(Window(k))
         THEN tournaments[k].category \in LabelsIn(Window(k))
         ELSE tournaments[k].category = PreviousCategory(k)

\* a call has returned a record with the category Junior whose window has
\* no heading, after an anchor of another organisation whose window has one
C19_Witness ==
  /\ Returned
  /\ \E k \in 1..Len(tournaments) : \E m \in 1..Len(codeMatches) :
       /\ m \notin Retained
       /\ codeMatches[m].index < offsets[k]
       /\ HeadingIn(TextBefore(normalizedText, codeMatches[m].index))
       /\ ~HeadingIn(Window(k))
       /\ HeadingIn(OldText(k))
       /\ tournaments[k].category = Junior

\* the offset in s of the first whole-word match of the alternation, the
\* length of s when there is none
WordOffset(alts, s) ==
  IF Match(alts, s).found THEN Match(alts, s).index ELSE Len(s)

\* C20: the title of a record is made from the text of its entry between
\* the end of the matched code and the offset of the whole-word gender
\* match or of the whole-word event-type match, the smaller of the two; a
\* word that did not match counts as the end of the entry.
C20_TitleUpToFirstKeyword ==
  \A k \in 1..Len(tournaments) :
    \E m \in 1..Len(codeMatches) :
      /\ codeMatches[m].index = offsets[k]
      /\ LET e == EntryText(k)
             stop == Min({WordOffset(genderRegex, e), WordOffset(typeRegex, e)})
             candidate == Substring(e, Len(codeMatches[m].raw), stop)
         IN tournaments[k].title
              = OrElse(CleanTitle(candidate), tournaments[k].category \o <<" ", "E", "v", "e", "n", "t">>)

\* separators, a dash, a date fragment and separators, and nothing else
onlyDateFragment ==
  << Star(WS), One(Dashes), Star(DashOrWs), Rep(Digit, 1, 2), Star(WS),
     One({"-", "/"}), Star(WS), Rep(Digit, 1, 2), Star(WS), One({"-", "/"}),
     Star(WS), Rep(Digit, 2, 4), Star(DashOrWs), End >>

\* the text has nothing but separators, or separators and one date fragment
NothingButDate(s) ==
  \/ \A p \in 1..Len(s) : s[p] \in DashOrWs
  \/ MatchFrom(onlyDateFragment, 1, s, 1) # 0

\* C21: no record has an empty title, and when nothing but separators and
\* a date fragment lies between the code and the first gender or event
\* word, the title is the category of the record followed by " Event".
C21_EmptyTitleFallsBack ==
  \A k \in 1..Len(tournaments) :
    \E m \in 1..Len(codeMatches) :
      /\ codeMatches[m].index = offsets[k]
      /\ tournaments[k].title # <<>>
      /\ LET e == EntryText(k)
             stop == Min({WordOffset(genderRegex, e), WordOffset(typeRegex, e)})
         IN NothingButDate(Substring(e, Len(codeMatches[m].raw), stop))
              => tournaments[k].title = tournaments[k].category \o <<" ", "E", "v", "e", "n", "t">>

\* s with each run of whitespace made one space
RECURSIVE SingleSpaced(_)
SingleSpaced(s) ==
  IF s = <<>> THEN <<>>
  ELSE IF Head(s) \notin WS THEN <<Head(s)>> \o SingleSpaced(Tail(s))
  ELSE IF Len(s) > 1 /\ s[2] \in WS THEN SingleSpaced(Tail(s))
  ELSE <<" ">> \o SingleSpaced(Tail(s))

\* s without the whitespace at its two ends
Inner(s) ==
  IF \A p \in 1..Len(s) : s[p] \in WS THEN <<>>
  ELSE SubSeq(s, CHOOSE a \in 1..Len(s) : s[a] \notin WS /\ \A p \in 1..(a - 1) : s[p] \in WS,
                 CHOOSE b \in 1..Len(s) : s[b] \notin WS /\ \A p \in (b + 1)..Len(s) : s[p] \in WS)

\* the offset in s of the end of its first date, -1 when it has none
DateEnd(s) ==
  LET d == Match(dateRegex, s)
  IN IF d.found THEN d.index + Len(d.m) ELSE -1

\* the offset in s of the first CD: label in capitals, -1 when it has none
LabelStart(s) ==
  IF \E p \in 1..(Len(s) - 2) : SubSeq(s, p, p + 2) = <<"C", "D", ":">>
  THEN (CHOOSE p \in 1..(Len(s) - 2) :
          /\ SubSeq(s, p, p + 2) = <<"C", "D", ":">>
          /\ \A q \in 1..(p - 1) : SubSeq(s, q, q + 2) # <<"C", "D", ":">>) - 1
  ELSE -1

\* the text of s between its first date and its first CD: label
BetweenDateAndLabel(s) == Substring(s, DateEnd(s), LabelStart(s))

\* C22: when the entry has a date and its first CD: label starts after the
\* end of the date, the venue is the text between them without the whitespace
\* at its ends, its whitespace runs made single spaces, cut to its first 80
\* characters; when the date is absent, the label is absent, or the label
\* starts before or at the end of the date, the venue is Sussex Club; the
\* venue never has more than 80 characters.
C22_VenueBetweenDateAndLabel ==
  \A k \in 1..Len(tournaments) :
    LET e == EntryText(k)
        v == tournaments[k].venue
        dateEnd == DateEnd(e)
        label == LabelStart(e)
    IN /\ Len(v) <= 80
       /\ (dateEnd # -1 /\ label > dateEnd) =>
            LET t == SingleSpaced(Inner(Substring(e, dateEnd, label)))
            IN v = SubSeq(t, 1, Min({80, Len(t)}))
       /\ (dateEnd = -1 \/ label <= dateEnd) => v = <<"S", "u", "s", "s", "e", "x", " ", "C", "l", "u", "b">>

\* a call has returned a record whose venue is the first 80 characters of a
\* longer text with double spaces between the date and the label
C22_Witness ==
  /\ Returned
  /\ \E k \in 1..Len(tournaments) :
       LET e == EntryText(k)
       IN /\ DateEnd(e) # -1 /\ LabelStart(e) > DateEnd(e)
          /\ Len(SingleSpaced(Inner(BetweenDateAndLabel(e)))) > 80
          /\ Len(BetweenDateAndLabel(e)) > Len(SingleSpaced(BetweenDateAndLabel(e)))
          /\ Len(tournaments[k].venue) = 80

\* C23: no record has an empty venue: the venue is text recovered between
\* the date and the CD: label, or Sussex Club; it is Sussex Club when only
\* whitespace lies between the date and the label.
C23_NoEmptyVenue ==
  \A k \in 1..Len(tournaments) :
    LET e == EntryText(k)
        dateEnd == DateEnd(e)
        label == LabelStart(e)
    IN /\ tournaments[k].venue # <<>>
       /\ (dateEnd # -1 /\ label > dateEnd
             /\ Inner(Substring(e, dateEnd, label)) = <<>>)
            => tournaments[k].venue = <<"S", "u", "s", "s", "e", "x", " ", "C", "l", "u", "b">>

\* C24: when the entry has a date and a closing deadline, and the label of
\* that deadline (CD: in any case, followed by its date and time) starts
\* after the end of the date with text between them, the venue is that text
\* (trimmed, single-spaced, cut to 80 characters) and not Sussex Club.
C24_VenueEndsAtDeadlineLabel ==
  \A k \in 1..Len(tournaments) :
    LET e == EntryText(k)
        dateEnd == DateEnd(e)
        cdMatch == Match(deadlineRegex(<<"C", "D", ":">>), e)
        t == SingleSpaced(Inner(Substring(e, dateEnd, cdMatch.index)))
    IN (/\ dateEnd # -1
        /\ tournaments[k].deadlineCD # <<"N", "/", "A">>
        /\ cdMatch.found /\ cdMatch.index > dateEnd
        /\ t # <<>>)
         => /\ tournaments[k].venue = SubSeq(t, 1, Min({80, Len(t)}))
            /\ tournaments[k].venue # <<"S", "u", "s", "s", "e", "x", " ", "C", "l", "u", "b">>

\* the letters of s are the upper-case abbreviation of a month
MonthAbbreviations ==
  { <<"J", "A", "N">>, <<"F", "E", "B">>, <<"M", "A", "R">>, <<"A", "P", "R">>, <<"M", "A", "Y">>, <<"J", "U", "N">>, <<"J", "U", "L">>, <<"A", "U", "G">>,
    <<"S", "E", "P">>, <<"O", "C", "T">>, <<"N", "O", "V">>, <<"D", "E", "C">> }

\* d has the form weekday, space, day of one or two digits, space, month
DateForm(d) ==
  \E n \in 1..2 :
    /\ Len(d) = 8 + n
    /\ [p \in 1..3 |-> ToLowerChar(d[p])] \in Weekdays
    /\ d[4] = " "
    /\ \A p \in 5..(4 + n) : d[p] \in Digit
    /\ d[5 + n] = " "
    /\ ToUpperCase(SubSeq(d, 6 + n, 8 + n)) \in MonthAbbreviations

\* the first place of s where a date begins, 0 when there is none
FirstDate(s) ==
  IF HasDate(s) THEN CHOOSE p \in 1..Len(s) : DateAt(s, p) /\ \A q \in 1..(p - 1) : ~DateAt(s, q)
  ELSE 0

\* C25: the date of a record is the first substring of its entry made of a
\* weekday abbreviation in any case, a day of one or two digits and a
\* three-letter month abbreviation, with its whitespace runs made single
\* spaces; every date other than TBD has the form weekday, space, day,
\* space, month.
C25_DateForm ==
  \A k \in 1..Len(tournaments) :
    LET e == EntryText(k)
        d == tournaments[k].date
    IN /\ d # <<"T", "B", "D">> => DateForm(d)
       /\ HasDate(e) =>
            \E n \in 1..Len(e) :
              d = SingleSpaced(SubSeq(e, FirstDate(e), FirstDate(e) + n - 1))

\* the full name of the month with the upper-case abbreviation a, Upcoming
\* when a is not one of the twelve
MonthName(a) ==
  IF a = <<"J", "A", "N">> THEN <<"J", "a", "n", "u", "a", "r", "y">> ELSE IF a = <<"F", "E", "B">> THEN <<"F", "e", "b", "r", "u", "a", "r", "y">>
  ELSE IF a = <<"M", "A", "R">> THEN <<"M", "a", "r", "c", "h">> ELSE IF a = <<"A", "P", "R">> THEN <<"A", "p", "r", "i", "l">>
  ELSE IF a = <<"M", "A", "Y">> THEN <<"M", "a", "y">> ELSE IF a = <<"J", "U", "N">> THEN <<"J", "u", "n", "e">>
  ELSE IF a = <<"J", "U", "L">> THEN <<"J", "u", "l", "y">> ELSE IF a = <<"A", "U", "G">> THEN <<"A", "u", "g", "u", "s", "t">>
  ELSE IF a = <<"S", "E", "P">> THEN <<"S", "e", "p", "t", "e", "m", "b", "e", "r">> ELSE IF a = <<"O", "C", "T">> THEN <<"O", "c", "t", "o", "b", "e", "r">>
  ELSE IF a = <<"N", "O", "V">> THEN <<"N", "o", "v", "e", "m", "b", "e", "r">> ELSE IF a = <<"D", "E", "C">> THEN <<"D", "e", "c", "e", "m", "b", "e", "r">>
  ELSE <<"U", "p", "c", "o", "m", "i", "n", "g">>

\* the characters of s after its last space, all of s when it has none
LastToken(s) ==
  IF \E p \in 1..Len(s) : s[p] = " "
  THEN LET p == CHOOSE q \in 1..Len(s) : s[q] = " " /\ \A r \in (q + 1)..Len(s) : s[r] # " "
       IN SubSeq(s, p + 1, Len(s))
  ELSE s

\* C26: the month of a record is M, a space and Y: M is the full name of
\* the month whose abbreviation is the upper-cased last space-delimited
\* token of the date of the record, Upcoming when the token is none of the
\* twelve (as for TBD); Y is 2025 when the two-digit year of the code (its
\* fifth and sixth characters) is 25, and 2026 for every other code.
C26_MonthLabel ==
  \A k \in 1..Len(tournaments) :
    LET r == tournaments[k]
    IN r.month = MonthName(ToUpperCase(LastToken(r.date))) \o <<" ">>
                   \o (IF SubSeq(r.ltaCode, 5, 6) = <<"2", "5">> THEN <<"2", "0", "2", "5">> ELSE <<"2", "0", "2", "6">>)

\* a call has returned a record whose date is in lower case and whose code
\* has the year 26 and the digits 25 in its number: its month is October 2026
C26_Witness ==
  /\ Returned
  /\ \E k \in 1..Len(tournaments) :
       /\ tournaments[k].date = <<"s", "u", "n", " ", "7", " ", "o", "c", "t">>
       /\ tournaments[k].month = <<"O", "c", "t", "o", "b", "e", "r", " ", "2", "0", "2", "6">>
       /\ tournaments[k].ltaCode = <<"S", "U", "S", "-", "2", "6", "-", "0", "2", "5", "5">>

GradeWords == { <<"S", "I", "N", "G", "L", "E", "S">>, <<"D", "O", "U", "B", "L", "E", "S">>, <<"G", "R", "A", "D", "E">> }

\* the places after the whitespace that follows a grade word, in any case,
\* that begins at place p of s
AfterGradeWord(s, p) ==
  { p + Len(w) + Run(WS, s, p + Len(w), -1) :
      w \in { x \in GradeWords :
                /\ p + Len(x) - 1 <= Len(s)
                /\ ToUpperCase(SubSeq(s, p, p + Len(x) - 1)) = x } }

\* the digits of s that follow a grade word that begins at place p
GradeDigitsAt(s, p) ==
  { s[a] : a \in { b \in AfterGradeWord(s, p) : b <= Len(s) /\ s[b] \in Digit } }

\* the places of s where a grade word followed by a digit begins
GradedPlaces(s) == { p \in 1..Len(s) : GradeDigitsAt(s, p) # {} }

\* C27: the grade of a record is Grade, a space and one digit: the first
\* digit of the entry that follows, with or without whitespace, an
\* occurrence of Singles, Doubles or Grade in any case, and 4 when the
\* entry has no such digit.
C27_GradeDigit ==
  \A k \in 1..Len(tournaments) :
    LET e == EntryText(k)
        g == tournaments[k].grade
    IN /\ Len(g) = 7 /\ SubSeq(g, 1, 6) = <<"G", "r", "a", "d", "e", " ">> /\ g[7] \in Digit
       /\ GradedPlaces(e) = {} => g[7] = "4"
       /\ GradedPlaces(e) # {} => g[7] \in GradeDigitsAt(e, Min(GradedPlaces(e)))

\* a call has returned a record of grade 5 whose entry has the word Doubles
\* without a digit before the word Grade with its digit
C27_Witness ==
  /\ Returned
  /\ \E k \in 1..Len(tournaments) :
       /\ tournaments[k].grade = <<"G", "r", "a", "d", "e", " ", "5">>
       /\ Includes(EntryText(k), <<"D", "o", "u", "b", "l", "e", "s", " ", "G", "r", "a", "d", "e", " ", "5">>)
       /\ GradeDigitsAt(EntryText(k), IndexOf(EntryText(k), <<"D", "o", "u", "b", "l", "e", "s">>) + 1) = {}

\* the place in s where the date and time that begin at place a end: two
\* digits, a slash, two digits, a slash, four digits, whitespace or none,
\* two digits, a colon and two digits; 0 when no date and time begin at a
DateTimeEnd(s, a) ==
  LET b == a + 10 + Run(WS, s, a + 10, -1)
  IN IF /\ b + 4 <= Len(s)
        /\ \A p \in {a, a + 1, a + 3, a + 4, a + 6, a + 7, a + 8, a + 9} : s[p] \in Digit
        /\ s[a + 2] = "/" /\ s[a + 5] = "/"
        /\ \A p \in {b, b + 1, b + 3, b + 4} : s[p] \in Digit
        /\ s[b + 2] = ":"
     THEN b + 4 ELSE 0

\* the place after the label at place p of s and the whitespace behind it
AfterLabel(s, p) == p + 3 + Run(WS, s, p + 3, -1)

\* the places of s where the label begins, as written or in any case, with
\* a date and time behind it
LabelledPlaces(s, label, anyCase) ==
  { p \in 1..(Len(s) - 2) :
      /\ \/ SubSeq(s, p, p + 2) = label
         \/ anyCase /\ ToUpperCase(SubSeq(s, p, p + 2)) = label
      /\ DateTimeEnd(s, AfterLabel(s, p)) # 0 }

\* the date and time behind the first label of s that has one, N/A when s
\* has no such label
Deadline(s, label, anyCase) ==
  IF LabelledPlaces(s, label, anyCase) = {} THEN <<"N", "/", "A">>
  ELSE LET a == AfterLabel(s, Min(LabelledPlaces(s, label, anyCase)))
       IN SubSeq(s, a, DateTimeEnd(s, a))

\* C28 as stated: each deadline is the date and time behind the first label
\* CD: (WD:), written so, that has one, and N/A exactly when the entry has no
\* such label with a date and time, whatever the other deadline is and
\* wherever it lies.
C28_DeadlinesAtLiteralLabels ==
  \A k \in 1..Len(tournaments) :
    /\ tournaments[k].deadlineCD = Deadline(EntryText(k), <<"C", "D", ":">>, FALSE)
    /\ tournaments[k].deadlineWD = Deadline(EntryText(k), <<"W", "D", ":">>, FALSE)

\* C28, amended: each deadline is the date and time behind the first label
\* CD: (WD:), in any letter case, that has one, and N/A exactly when the
\* entry has no such label with a date and time, whatever the other
\* deadline is and wherever it lies.
C28_DeadlinesIndependent ==
  \A k \in 1..Len(tournaments) :
    /\ tournaments[k].deadlineCD = Deadline(EntryText(k), <<"C", "D", ":">>, TRUE)
    /\ tournaments[k].deadlineWD = Deadline(EntryText(k), <<"W", "D", ":">>, TRUE)

\* a call has returned a record with both deadlines whose entry has a CD:
\* label without a date and time, then the withdrawal deadline, then the
\* closing deadline
C28_Witness ==
  /\ Returned
  /\ \E k \in 1..Len(tournaments) :
       LET e == EntryText(k)
       IN /\ tournaments[k].deadlineCD = <<"0", "2", "/", "0", "9", "/", "2", "0", "2", "5", " ", "1", "0", ":", "0", "0">>
          /\ tournaments[k].deadlineWD = <<"0", "3", "/", "0", "9", "/", "2", "0", "2", "5", " ", "1", "0", ":", "0", "0">>
          /\ IndexOf(e, <<"C", "D", ":">>) < IndexOf(e, <<"W", "D", ":">>)
          /\ IndexOf(e, <<"W", "D", ":">>) < IndexOf(e, <<"C", "D", ":", " ", "0", "2">>)

\* C29: the postcode of a record is read from its venue, as cut to 80
\* characters, and from nothing else of the entry: it is the first
\* postcode-shaped substring of the venue with its whitespace runs made
\* single spaces and in upper case, and BN1 when the venue has none, as when
\* the venue is Sussex Club.
C29_PostcodeFromVenueOnly ==
  \A k \in 1..Len(tournaments) :
    LET v == tournaments[k].venue
        first == Match(postcodeRegex, v)
    IN /\ tournaments[k].postcode =
            (IF first.found THEN ToUpperCase(SingleSpaced(first.m)) ELSE <<"B", "N", "1">>)
       /\ v = <<"S", "u", "s", "s", "e", "x", " ", "C", "l", "u", "b">> => tournaments[k].postcode = <<"B", "N", "1">>

\* a call has returned a record with the postcode BN1 whose entry has a
\* postcode that the cut of the venue to 80 characters has split
C29_Witness ==
  /\ Returned
  /\ \E k \in 1..Len(tournaments) :
       /\ Len(tournaments[k].venue) = 80
       /\ Includes(EntryText(k), <<"B", "N", "3", " ", "6", "L", "U">>)
       /\ ~Includes(tournaments[k].venue, <<"B", "N", "3", " ", "6", "L", "U">>)
       /\ tournaments[k].postcode = <<"B", "N", "1">>

\* s has a heading of the 8-and-under events: 8 & U EVENTS in any case,
\* with or without whitespace between its parts, whose 8 is not the 8 of 18
Has8UHeading(s) ==
  \E p \in 1..Len(s) :
    /\ p = 1 \/ s[p - 1] # "1"
    /\ MatchFrom(AgeHeading(<<"8">>), 1, s, p) # 0

\* C30: an entry whose category is set from the headings of its window has
\* the category 8U only when the window has a heading of the 8-and-under
\* events; a heading of the 18-and-under events, with or without - BOYS or
\* - GIRLS behind it, does not give 8U.
C30_EighteenIsNotEight ==
  \A k \in 1..Len(tournaments) :
    (tournaments[k].category = <<"8", "U">> /\ MatchingIn(Window(k)) # {})
      => Has8UHeading(Window(k))

====
